---- MODULE Spec2Model ----
(***************************************************************************)
(* A model of espp::RtspSession (components/rtsp/include/rtsp_session.hpp): *)
(* the RTSP control-plane of one client session.  Request buffers and       *)
(* responses are sequences of characters, parsed and formatted exactly as   *)
(* the C++ does (std::string_view::find / substr, std::stoi,                *)
(* std::to_string); the session fields, the control task, the owner's calls *)
(* and a frame producer are the processes of the state machine.             *)
(***************************************************************************)
EXTENDS Integers, Sequences, FiniteSets, TLC

(***************************************************************************)
(* Literal byte strings of the source, one character per element.           *)
(***************************************************************************)
RtspVersionPrefix ==
    <<"R", "T", "S", "P", "/", "1", ".", "0", " ">>
CSeqHeader ==
    <<"C", "S", "e", "q", ":", " ">>
ContentLengthHeader ==
    <<"C", "o", "n", "t", "e", "n", "t", "-", "L", "e", "n", "g", "t", "h", ":", " ">>
PublicHeader ==
    <<"P", "u", "b", "l", "i", "c", ":", " ", "D", "E", "S", "C", "R", "I", "B", "E", ",", " ",
      "S", "E", "T", "U", "P", ",", " ", "T", "E", "A", "R", "D", "O", "W", "N", ",", " ", "P",
      "L", "A", "Y", ",", " ", "P", "A", "U", "S", "E", "\r", "\n">>
SessionHeader ==
    <<"S", "e", "s", "s", "i", "o", "n", ":", " ">>
RangeHeader ==
    <<"R", "a", "n", "g", "e", ":", " ", "n", "p", "t", "=", "0", ".", "0", "0", "0", "-",
      "\r", "\n">>
TransportReply ==
    <<"T", "r", "a", "n", "s", "p", "o", "r", "t", ":", " ", "R", "T", "P", "/", "A", "V", "P",
      ";", "u", "n", "i", "c", "a", "s", "t", ";", "c", "l", "i", "e", "n", "t", "_", "p", "o",
      "r", "t", "=">>
TransportHeader ==
    <<"T", "r", "a", "n", "s", "p", "o", "r", "t", ":", " ">>
\* The TCP test of parse_rtsp_setup_request looking for a token no client sends.
TcpTransportMisspelled ==
    <<"R", "T", "P", "/", "T", "C", "P">>
TcpTransport ==
    <<"R", "T", "P", "/", "A", "V", "P", "/", "T", "C", "P">>
ClientPortKey ==
    <<"c", "l", "i", "e", "n", "t", "_", "p", "o", "r", "t", "=">>
ContentTypeHeader ==
    <<"C", "o", "n", "t", "e", "n", "t", "-", "T", "y", "p", "e", ":", " ", "a", "p", "p", "l",
      "i", "c", "a", "t", "i", "o", "n", "/", "s", "d", "p", "\r", "\n">>
ContentBaseHeader ==
    <<"C", "o", "n", "t", "e", "n", "t", "-", "B", "a", "s", "e", ":", " ">>
RtspScheme ==
    <<"r", "t", "s", "p", ":", "/", "/">>
MsgOK ==
    <<"O", "K">>
MsgBadRequest ==
    <<"B", "a", "d", " ", "R", "e", "q", "u", "e", "s", "t">>
MsgUnsupportedTransport ==
    <<"U", "n", "s", "u", "p", "p", "o", "r", "t", "e", "d", " ", "T", "r", "a", "n", "s", "p",
      "o", "r", "t">>
SdpVersionOrigin ==
    <<"v", "=", "0", "\r", "\n", "o", "=", "-", " ">>
SdpOriginNet ==
    <<" ", "1", " ", "I", "N", " ", "I", "P", "4", " ">>
SdpNameTimeControl ==
    <<"\r", "\n", "s", "=", "M", "J", "P", "E", "G", " ", "S", "t", "r", "e", "a", "m", "\r",
      "\n", "i", "=", "M", "J", "P", "E", "G", " ", "S", "t", "r", "e", "a", "m", "\r", "\n",
      "t", "=", "0", " ", "0", "\r", "\n", "a", "=", "c", "o", "n", "t", "r", "o", "l", ":">>
SdpMedia ==
    <<"\r", "\n", "a", "=", "m", "i", "m", "e", "t", "y", "p", "e", ":", "s", "t", "r", "i",
      "n", "g", ";", "\"", "v", "i", "d", "e", "o", "/", "x", "-", "m", "o", "t", "i", "o",
      "n", "-", "j", "p", "e", "g", "\"", "\r", "\n", "m", "=", "v", "i", "d", "e", "o", " ",
      "0", " ", "R", "T", "P", "/", "A", "V", "P", " ", "2", "6", "\r", "\n", "c", "=", "I",
      "N", " ", "I", "P", "4", " ", "0", ".", "0", ".", "0", ".", "0", "\r", "\n", "b", "=",
      "A", "S", ":", "2", "5", "6", "\r", "\n", "a", "=", "c", "o", "n", "t", "r", "o", "l",
      ":">>
SdpTail ==
    <<"\r", "\n", "a", "=", "u", "d", "p", "-", "o", "n", "l", "y", "\r", "\n">>
M_OPTIONS ==
    <<"O", "P", "T", "I", "O", "N", "S">>
M_DESCRIBE ==
    <<"D", "E", "S", "C", "R", "I", "B", "E">>
M_SETUP ==
    <<"S", "E", "T", "U", "P">>
M_PLAY ==
    <<"P", "L", "A", "Y">>
M_PAUSE ==
    <<"P", "A", "U", "S", "E">>
M_TEARDOWN ==
    <<"T", "E", "A", "R", "D", "O", "W", "N">>

CR == "\r"
LF == "\n"
SP == " "
CRLF == <<CR, LF>>
DigitChars == <<"0", "1", "2", "3", "4", "5", "6", "7", "8", "9">>
WhiteSpace == {" ", "\t", "\n", "\r", "\f"}

(***************************************************************************)
(* std::string_view primitives.  Indices are 0-based as in C++.  size_t     *)
(* arithmetic is unsigned and wraps; it is kept modulo SizeMod, which is     *)
(* larger than any buffer the control task receives (max_request_size), so   *)
(* the only wrap-arounds are the ones through npos, as on the target.        *)
(***************************************************************************)
SizeMod == 2 ^ 16
npos == SizeMod - 1
SzAdd(a, b) == (a + b) % SizeMod
SzSub(a, b) == (a + SizeMod - b) % SizeMod
MinOf(a, b) == IF a <= b THEN a ELSE b

\* string_view::find(pat, pos): the first index >= pos at which pat occurs.
Find(s, pat, pos) ==
    LET last == Len(s) - Len(pat)
        hits == {i \in pos..last : SubSeq(s, i + 1, i + Len(pat)) = pat}
    IN  IF hits = {} THEN npos
        ELSE CHOOSE i \in hits : \A j \in hits : i <= j

\* string_view::substr(pos, count) throws std::out_of_range when pos > size().
SubstrThrows(s, pos) == pos > Len(s)
Substr(s, pos, count) == SubSeq(s, pos + 1, pos + MinOf(count, Len(s) - pos))

(***************************************************************************)
(* std::stoi: skips leading white space, takes an optional sign and the      *)
(* longest run of decimal digits; throws std::invalid_argument when there    *)
(* is no digit and std::out_of_range when the value does not fit an int.     *)
(***************************************************************************)
INT_MAX == 2147483647
IsDigit(c) == \E i \in 1..10 : DigitChars[i] = c
DigitVal(c) == (CHOOSE i \in 1..10 : DigitChars[i] = c) - 1

RECURSIVE SkipSpace(_, _)
SkipSpace(s, i) ==
    IF i <= Len(s) /\ s[i] \in WhiteSpace THEN SkipSpace(s, i + 1) ELSE i

\* Accumulates the digits from s[i] on; acc is the magnitude so far.  The
\* result's fits is FALSE as soon as the magnitude exceeds lim.
RECURSIVE StoiDigits(_, _, _, _)
StoiDigits(s, i, acc, lim) ==
    IF i > Len(s) \/ ~IsDigit(s[i]) THEN [fits |-> TRUE, mag |-> acc]
    ELSE LET d == DigitVal(s[i])
         IN  IF acc > (lim - d) \div 10 THEN [fits |-> FALSE, mag |-> 0]
             ELSE StoiDigits(s, i + 1, acc * 10 + d, lim)

\* For a negative number the magnitude may reach INT_MAX + 1; the model keeps
\* to INT_MAX, so "-2147483648" alone is reported out of range.
Stoi(s) ==
    LET i == SkipSpace(s, 1)
        signed == i <= Len(s) /\ s[i] \in {"+", "-"}
        neg == signed /\ s[i] = "-"
        j == IF signed THEN i + 1 ELSE i
    IN  IF j > Len(s) \/ ~IsDigit(s[j]) THEN [thrown |-> TRUE, val |-> 0]
        ELSE LET r == StoiDigits(s, j, 0, INT_MAX)
             IN  IF ~r.fits THEN [thrown |-> TRUE, val |-> 0]
                 ELSE [thrown |-> FALSE, val |-> IF neg THEN 0 - r.mag ELSE r.mag]

\* std::to_string of an integer: decimal, with a leading '-' when negative.
RECURSIVE NatToString(_)
NatToString(n) ==
    IF n < 10 THEN <<DigitChars[n + 1]>>
    ELSE NatToString(n \div 10) \o <<DigitChars[(n % 10) + 1]>>

to_string(n) == IF n < 0 THEN <<"-">> \o NatToString(0 - n) ELSE NatToString(n)

(***************************************************************************)
(* The session object.  A handler is an operator on a session record s:      *)
(*   closed_, session_active_, client_rtp_port_, client_rtcp_port_,          *)
(*   session_id_, server_address_, rtsp_path_   the fields of RtspSession;   *)
(*   out     the responses handed to control_socket_->transmit, in order;    *)
(*   tx_ok   what transmit returns during this call.                         *)
(* It yields the session after the call, the call's boolean result, and      *)
(* whether a C++ exception left the call (thrown).                           *)
(***************************************************************************)
Returned(s, ret) == [s |-> s, ret |-> ret, thrown |-> FALSE]
Thrown(s) == [s |-> s, ret |-> FALSE, thrown |-> TRUE]

play(s) == [s EXCEPT !.session_active_ = TRUE]

\* A pause() that forgets to clear the flag.
pause_keeps_active(s) == s

pause(s) == [s EXCEPT !.session_active_ = FALSE]

\* A teardown() that stops the stream but forgets to set closed_.
teardown_keeps_open(s) == [s EXCEPT !.session_active_ = FALSE]

teardown(s) == [s EXCEPT !.session_active_ = FALSE, !.closed_ = TRUE]

\* The default of send_response's sequence_number: "no CSeq line".
NoSequenceNumber == -1

\* A send_response that writes the Content-Length line for every response.
send_response_with_length(s, code, message, sequence_number, headers, body) ==
    LET response ==
            RtspVersionPrefix \o to_string(code) \o <<SP>> \o message \o CRLF
            \o (IF sequence_number # NoSequenceNumber
                THEN CSeqHeader \o to_string(sequence_number) \o CRLF
                ELSE <<>>)
            \o headers
            \o ContentLengthHeader \o to_string(Len(body)) \o CRLF \o CRLF \o body
    IN  Returned([s EXCEPT !.out = Append(@, response)], s.tx_ok)

send_response(s, code, message, sequence_number, headers, body) ==
    LET response ==
            RtspVersionPrefix \o to_string(code) \o <<SP>> \o message \o CRLF
            \o (IF sequence_number # NoSequenceNumber
                THEN CSeqHeader \o to_string(sequence_number) \o CRLF
                ELSE <<>>)
            \o headers
            \o (IF body # <<>>
                THEN ContentLengthHeader \o to_string(Len(body)) \o CRLF \o CRLF \o body
                ELSE CRLF)
    IN  Returned([s EXCEPT !.out = Append(@, response)], s.tx_ok)

\* [ok, thrown, cseq]: ok is the function's result, cseq its output argument.
parse_rtsp_command_sequence(request) ==
    LET cseq_index == Find(request, CSeqHeader, 0)
        cseq_end_index == Find(request, <<CR>>, cseq_index)
        cseq_str == Substr(request, cseq_index + 6, cseq_end_index - cseq_index - 6)
        failed == [ok |-> FALSE, thrown |-> FALSE, cseq |-> 0]
    IN  IF cseq_index = npos THEN failed
        ELSE IF cseq_end_index = npos THEN failed
        ELSE IF cseq_str = <<>> THEN failed
        ELSE LET r == Stoi(cseq_str)
             IN  IF r.thrown THEN [ok |-> FALSE, thrown |-> TRUE, cseq |-> 0]
                 ELSE [ok |-> TRUE, thrown |-> FALSE, cseq |-> r.val]

\* A handler of invalid requests that also gives the session up.
handle_rtsp_invalid_request_closes(s, request) ==
    send_response(teardown(s), 400, MsgBadRequest, NoSequenceNumber, <<>>, <<>>)

handle_rtsp_invalid_request(s, request) ==
    LET p == parse_rtsp_command_sequence(request)
    IN  IF p.thrown THEN Thrown(s)
        ELSE IF ~p.ok THEN send_response(s, 400, MsgBadRequest, NoSequenceNumber, <<>>, <<>>)
        ELSE send_response(s, 400, MsgBadRequest, p.cseq, <<>>, <<>>)

\* A handle_rtsp_options that answers without the sequence number.
handle_rtsp_options_without_cseq(s, request) ==
    LET p == parse_rtsp_command_sequence(request)
    IN  IF p.thrown THEN Thrown(s)
        ELSE IF ~p.ok THEN handle_rtsp_invalid_request(s, request)
        ELSE send_response(s, 200, MsgOK, NoSequenceNumber, PublicHeader, <<>>)

handle_rtsp_options(s, request) ==
    LET p == parse_rtsp_command_sequence(request)
    IN  IF p.thrown THEN Thrown(s)
        ELSE IF ~p.ok THEN handle_rtsp_invalid_request(s, request)
        ELSE send_response(s, 200, MsgOK, p.cseq, PublicHeader, <<>>)

\* A handle_rtsp_describe whose Content-Base is the configured path alone.
handle_rtsp_describe_short_base(s, request) ==
    LET p == parse_rtsp_command_sequence(request)
        rtsp_path == RtspScheme \o s.server_address_ \o <<"/">> \o s.rtsp_path_
        body == SdpVersionOrigin \o to_string(s.session_id_) \o SdpOriginNet
                \o s.server_address_ \o SdpNameTimeControl \o rtsp_path
                \o SdpMedia \o rtsp_path \o SdpTail
        headers == ContentTypeHeader \o ContentBaseHeader \o s.rtsp_path_ \o CRLF
    IN  IF p.thrown THEN Thrown(s)
        ELSE IF ~p.ok THEN handle_rtsp_invalid_request(s, request)
        ELSE send_response(s, 200, MsgOK, p.cseq, headers, body)

handle_rtsp_describe(s, request) ==
    LET p == parse_rtsp_command_sequence(request)
        rtsp_path == RtspScheme \o s.server_address_ \o <<"/">> \o s.rtsp_path_
        body == SdpVersionOrigin \o to_string(s.session_id_) \o SdpOriginNet
                \o s.server_address_ \o SdpNameTimeControl \o rtsp_path
                \o SdpMedia \o rtsp_path \o SdpTail
        headers == ContentTypeHeader \o ContentBaseHeader \o rtsp_path \o CRLF
    IN  IF p.thrown THEN Thrown(s)
        ELSE IF ~p.ok THEN handle_rtsp_invalid_request(s, request)
        ELSE send_response(s, 200, MsgOK, p.cseq, headers, body)

parse_rtsp_path(request) ==
    LET first == Find(request, <<SP>>, 0)
        second == Find(request, <<SP>>, SzAdd(first, 1))
    IN  Substr(request, SzAdd(first, 1), SzSub(SzSub(second, first), 1))

\* [s, ok, thrown, rtp, rtcp]: s has the 461 response appended when the
\* function sent one; rtp and rtcp are the output arguments.
parse_rtsp_setup_request(s, request) ==
    LET failed(t) == [s |-> t, ok |-> FALSE, thrown |-> FALSE, rtp |-> 0, rtcp |-> 0]
        threw == [s |-> s, ok |-> FALSE, thrown |-> TRUE, rtp |-> 0, rtcp |-> 0]
        transport_index == Find(request, TransportHeader, 0)
        transport_end_index == Find(request, <<CR>>, transport_index)
        transport == Substr(request, transport_index + 11,
                            transport_end_index - transport_index - 11)
        client_port_index == Find(request, ClientPortKey, 0)
        dash_index == Find(request, <<"-">>, client_port_index)
        rtp_pos == SzAdd(client_port_index, 12)
        rtp_port == Substr(request, rtp_pos, SzSub(SzSub(dash_index, client_port_index), 12))
        rtcp_pos == SzAdd(dash_index, 1)
        rtcp_port == Substr(request, rtcp_pos,
                            SzSub(SzSub(Find(request, <<CR>>, client_port_index),
                                        dash_index), 1))
    IN  IF parse_rtsp_path(request) = <<>> THEN failed(s)
        ELSE IF transport_index = npos THEN failed(s)
        ELSE IF transport_end_index = npos THEN failed(s)
        ELSE IF transport = <<>> THEN failed(s)
        ELSE IF Find(transport, TcpTransport, 0) # npos
        THEN failed(send_response(s, 461, MsgUnsupportedTransport,
                                  NoSequenceNumber, <<>>, <<>>).s)
        ELSE IF SubstrThrows(request, rtp_pos) THEN threw
        ELSE IF rtp_port = <<>> THEN failed(s)
        ELSE IF SubstrThrows(request, rtcp_pos) THEN threw
        ELSE IF rtcp_port = <<>> THEN failed(s)
        ELSE LET a == Stoi(rtp_port)
                 b == Stoi(rtcp_port)
             IN  IF a.thrown \/ b.thrown THEN threw
                 ELSE [s |-> s, ok |-> TRUE, thrown |-> FALSE,
                       rtp |-> a.val, rtcp |-> b.val]

\* A handle_rtsp_setup that pauses the session it sets up again.
handle_rtsp_setup_pauses(s, request) ==
    LET q == parse_rtsp_setup_request(s, request)
        p == parse_rtsp_command_sequence(request)
        headers == SessionHeader \o to_string(s.session_id_) \o CRLF
                   \o TransportReply \o to_string(q.rtp) \o <<"-">>
                   \o to_string(q.rtcp) \o CRLF
    IN  IF q.thrown THEN Thrown(s)
        ELSE IF ~q.ok THEN Returned(q.s, FALSE)
        ELSE IF p.thrown THEN Thrown(s)
        ELSE IF ~p.ok THEN handle_rtsp_invalid_request(s, request)
        ELSE send_response(pause([s EXCEPT !.client_rtp_port_ = <<q.rtp>>,
                                           !.client_rtcp_port_ = <<q.rtcp>>]),
                           200, MsgOK, p.cseq, headers, <<>>)

\* A handle_rtsp_setup that draws a new session id for the session it sets
\* up.
handle_rtsp_setup_new_session_id(s, request) ==
    LET q == parse_rtsp_setup_request(s, request)
        p == parse_rtsp_command_sequence(request)
        session_id == s.session_id_ + 1
        headers == SessionHeader \o to_string(session_id) \o CRLF
                   \o TransportReply \o to_string(q.rtp) \o <<"-">>
                   \o to_string(q.rtcp) \o CRLF
    IN  IF q.thrown THEN Thrown(s)
        ELSE IF ~q.ok THEN Returned(q.s, FALSE)
        ELSE IF p.thrown THEN Thrown(s)
        ELSE IF ~p.ok THEN handle_rtsp_invalid_request(s, request)
        ELSE send_response([s EXCEPT !.client_rtp_port_ = <<q.rtp>>,
                                     !.client_rtcp_port_ = <<q.rtcp>>,
                                     !.session_id_ = session_id],
                           200, MsgOK, p.cseq, headers, <<>>)

handle_rtsp_setup(s, request) ==
    LET q == parse_rtsp_setup_request(s, request)
        p == parse_rtsp_command_sequence(request)
        headers == SessionHeader \o to_string(s.session_id_) \o CRLF
                   \o TransportReply \o to_string(q.rtp) \o <<"-">>
                   \o to_string(q.rtcp) \o CRLF
    IN  IF q.thrown THEN Thrown(s)
        ELSE IF ~q.ok THEN Returned(q.s, FALSE)
        ELSE IF p.thrown THEN Thrown(s)
        ELSE IF ~p.ok THEN handle_rtsp_invalid_request(s, request)
        ELSE send_response([s EXCEPT !.client_rtp_port_ = <<q.rtp>>,
                                     !.client_rtcp_port_ = <<q.rtcp>>],
                           200, MsgOK, p.cseq, headers, <<>>)

\* A handle_rtsp_play that starts the stream only once its response is out.
handle_rtsp_play_when_sent(s, request) ==
    LET p == parse_rtsp_command_sequence(request)
        headers == SessionHeader \o to_string(s.session_id_) \o CRLF \o RangeHeader
        r == send_response(s, 200, MsgOK, p.cseq, headers, <<>>)
    IN  IF p.thrown THEN Thrown(s)
        ELSE IF ~p.ok THEN handle_rtsp_invalid_request(s, request)
        ELSE IF r.ret THEN [r EXCEPT !.s = play(r.s)]
        ELSE r

handle_rtsp_play(s, request) ==
    LET p == parse_rtsp_command_sequence(request)
        headers == SessionHeader \o to_string(s.session_id_) \o CRLF \o RangeHeader
    IN  IF p.thrown THEN Thrown(s)
        ELSE IF ~p.ok THEN handle_rtsp_invalid_request(s, request)
        ELSE send_response(play(s), 200, MsgOK, p.cseq, headers, <<>>)

\* A handle_rtsp_pause that refuses to pause a session that is not playing.
handle_rtsp_pause_if_playing(s, request) ==
    LET p == parse_rtsp_command_sequence(request)
        headers == SessionHeader \o to_string(s.session_id_) \o CRLF
    IN  IF p.thrown THEN Thrown(s)
        ELSE IF ~p.ok THEN handle_rtsp_invalid_request(s, request)
        ELSE IF ~s.session_active_ THEN send_response(s, 400, MsgBadRequest, p.cseq, <<>>, <<>>)
        ELSE send_response(pause(s), 200, MsgOK, p.cseq, headers, <<>>)

handle_rtsp_pause(s, request) ==
    LET p == parse_rtsp_command_sequence(request)
        headers == SessionHeader \o to_string(s.session_id_) \o CRLF
    IN  IF p.thrown THEN Thrown(s)
        ELSE IF ~p.ok THEN handle_rtsp_invalid_request(s, request)
        ELSE send_response(pause(s), 200, MsgOK, p.cseq, headers, <<>>)

\* A handle_rtsp_teardown that closes the session before it looks at the
\* request.
handle_rtsp_teardown_first(s, request) ==
    LET p == parse_rtsp_command_sequence(request)
        headers == SessionHeader \o to_string(s.session_id_) \o CRLF
    IN  IF p.thrown THEN Thrown(teardown(s))
        ELSE IF ~p.ok THEN handle_rtsp_invalid_request(teardown(s), request)
        ELSE send_response(teardown(s), 200, MsgOK, p.cseq, headers, <<>>)

handle_rtsp_teardown(s, request) ==
    LET p == parse_rtsp_command_sequence(request)
        headers == SessionHeader \o to_string(s.session_id_) \o CRLF
    IN  IF p.thrown THEN Thrown(s)
        ELSE IF ~p.ok THEN handle_rtsp_invalid_request(s, request)
        ELSE send_response(teardown(s), 200, MsgOK, p.cseq, headers, <<>>)

handle_rtsp_request(s, request) ==
    LET first_space_index == Find(request, <<SP>>, 0)
        second_space_index == Find(request, <<SP>>, SzAdd(first_space_index, 1))
        end_of_line_index == Find(request, <<CR>>, 0)
        method == Substr(request, 0, first_space_index)
        body_pos == SzAdd(end_of_line_index, 2)
        request_body == Substr(request, body_pos, npos)
    IN  IF first_space_index = npos \/ second_space_index = npos
           \/ end_of_line_index = npos
        THEN handle_rtsp_invalid_request(s, request)
        ELSE IF SubstrThrows(request, body_pos) THEN Thrown(s)
        ELSE IF method = M_OPTIONS THEN handle_rtsp_options(s, request_body)
        ELSE IF method = M_DESCRIBE THEN handle_rtsp_describe(s, request_body)
        ELSE IF method = M_SETUP THEN handle_rtsp_setup(s, request_body)
        ELSE IF method = M_PLAY THEN handle_rtsp_play(s, request_body)
        ELSE IF method = M_PAUSE THEN handle_rtsp_pause(s, request_body)
        ELSE IF method = M_TEARDOWN THEN handle_rtsp_teardown(s, request_body)
        ELSE handle_rtsp_invalid_request(s, request_body)

(***************************************************************************)
(* The peer.  A request is described by what the client put into it and is   *)
(* rendered to the bytes that travel on the control connection:              *)
(*   method      the method token;                                           *)
(*   cseq_kind   "int": a "CSeq: <cseq>" header, "none": no CSeq header,     *)
(*               "text": a "CSeq: abc" header;                               *)
(*   transport   "none", "udp" (client_port=<n>-<m>) or "tcp";               *)
(*   extra       an extension header, itself holding "client_port=9-8",      *)
(*               placed before the Transport header;                         *)
(*   url         the URL of the request line;                                *)
(*   line        the request line: "ok" (METHOD URL VERSION), "one_space"    *)
(*               (METHOD URL), "no_space" (METHOD), "no_cr" (well formed,    *)
(*               but every line of the buffer ends with a bare LF), or       *)
(*               "cr_last" (the buffer ends with the CR of the request line: *)
(*               the rest of the request has not arrived yet).               *)
(***************************************************************************)
RequestUrl ==
    <<"r", "t", "s", "p", ":", "/", "/", "h", "/", "s">>
OtherUrl ==
    <<"r", "t", "s", "p", ":", "/", "/", "x", "/", "y">>
RtspVersion ==
    <<"R", "T", "S", "P", "/", "1", ".", "0">>
TcpTransportLine ==
    <<"T", "r", "a", "n", "s", "p", "o", "r", "t", ":", " ", "R", "T", "P", "/", "A", "V", "P",
      "/", "T", "C", "P", ";", "u", "n", "i", "c", "a", "s", "t", ";", "i", "n", "t", "e", "r",
      "l", "e", "a", "v", "e", "d", "=", "0", "-", "1", "\r", "\n">>
UdpTransportPrefix ==
    <<"T", "r", "a", "n", "s", "p", "o", "r", "t", ":", " ", "R", "T", "P", "/", "A", "V", "P",
      ";", "u", "n", "i", "c", "a", "s", "t", ";", "c", "l", "i", "e", "n", "t", "_", "p", "o",
      "r", "t", "=">>
UdpTransportLine ==
    <<"T", "r", "a", "n", "s", "p", "o", "r", "t", ":", " ", "R", "T", "P", "/", "A", "V", "P",
      ";", "u", "n", "i", "c", "a", "s", "t", "\r", "\n">>
ExtensionHeader ==
    <<"X", "-", "C", "l", "i", "e", "n", "t", ":", " ", "c", "l", "i", "e", "n", "t", "_", "p",
      "o", "r", "t", "=", "9", "-", "8", "\r", "\n">>
M_UNKNOWN ==
    <<"R", "E", "C", "O", "R", "D">>
CSeqText ==
    <<"a", "b", "c">>

Request(method, cseq_kind, cseq, transport, n, m, extra) ==
    [method |-> method, cseq_kind |-> cseq_kind, cseq |-> cseq,
     transport |-> transport, n |-> n, m |-> m, extra |-> extra, line |-> "ok",
     url |-> RequestUrl]

Plain(method, cseq) == Request(method, "int", cseq, "none", 0, 0, FALSE)
NoCSeq(method) == Request(method, "none", 0, "none", 0, 0, FALSE)
SetupUdp(cseq, n, m) == Request(M_SETUP, "int", cseq, "udp", n, m, FALSE)
SetupNoPorts(cseq) == Request(M_SETUP, "int", cseq, "udp_no_port", 0, 0, FALSE)
SetupTcp(cseq) == Request(M_SETUP, "int", cseq, "tcp", 0, 0, FALSE)
SetupExtra(cseq, n, m) == Request(M_SETUP, "int", cseq, "udp", n, m, TRUE)
TextCSeq(method) == Request(method, "text", 0, "none", 0, 0, FALSE)
WithLine(d, line) == [d EXCEPT !.line = line]
WithUrl(d, url) == [d EXCEPT !.url = url]
WithoutCSeq(d) == [d EXCEPT !.cseq_kind = "none", !.cseq = 0]

EndOfLine(d) == IF d.line = "no_cr" THEN <<LF>> ELSE CRLF

RequestLine(d) ==
    CASE d.line = "one_space" -> d.method \o <<SP>> \o d.url
      [] d.line = "no_space" -> d.method
      [] OTHER -> d.method \o <<SP>> \o d.url \o <<SP>> \o RtspVersion

RenderHeaders(d) ==
    RequestLine(d) \o EndOfLine(d)
    \o (CASE d.cseq_kind = "int" -> CSeqHeader \o to_string(d.cseq) \o EndOfLine(d)
          [] d.cseq_kind = "text" -> CSeqHeader \o CSeqText \o EndOfLine(d)
          [] OTHER -> <<>>)
    \o (IF d.extra THEN ExtensionHeader ELSE <<>>)
    \o (CASE d.transport = "udp" ->
               UdpTransportPrefix \o to_string(d.n) \o <<"-">> \o to_string(d.m) \o CRLF
          [] d.transport = "udp_no_port" -> UdpTransportLine
          [] d.transport = "tcp" -> TcpTransportLine
          [] OTHER -> <<>>)
    \o EndOfLine(d)

Render(d) == IF d.line = "cr_last" THEN RequestLine(d) \o <<CR>> ELSE RenderHeaders(d)

\* The requests the peer may send while the owner and a producer are active.
CoreRequests ==
    { Plain(M_OPTIONS, 1), SetupUdp(3, 5000, 5001), SetupUdp(3, 6000, 6001),
      SetupTcp(3), Plain(M_PLAY, 4), Plain(M_PAUSE, 5), Plain(M_TEARDOWN, 6),
      NoCSeq(M_TEARDOWN) }

\* The requests of the reader-only specification: every method, with and
\* without a CSeq header, and the SETUP variants.
AllRequests ==
    CoreRequests
    \cup { Plain(M_DESCRIBE, 2), Plain(M_UNKNOWN, 7), SetupExtra(3, 5000, 5001) }
    \cup { NoCSeq(m) : m \in {M_OPTIONS, M_DESCRIBE, M_SETUP, M_PLAY, M_PAUSE, M_UNKNOWN} }
    \cup { Plain(M_SETUP, 3), WithoutCSeq(SetupUdp(3, 5000, 5001)), WithoutCSeq(SetupTcp(3)) }
    \cup { TextCSeq(M_PLAY), TextCSeq(M_UNKNOWN) }
    \cup { SetupUdp(3, 70000, 70001), SetupNoPorts(3) }
    \cup { WithLine(d, l) : d \in {Plain(M_PLAY, 4), NoCSeq(M_PLAY)},
                             l \in {"one_space", "no_space", "no_cr"} }
    \cup { Plain(M_PLAY, -1), Plain(M_PLAY, -2), WithLine(NoCSeq(M_OPTIONS), "cr_last") }

\* The requests of the sequence scenarios (SETUP, PLAY, PAUSE, ...).
SeqRequests ==
    { SetupUdp(3, 5000, 5001), Plain(M_PLAY, 4), Plain(M_PAUSE, 5),
      Plain(M_OPTIONS, 1), Plain(M_TEARDOWN, 6) }

\* The requests the peer sends while the owner destroys the session.
LifeRequests ==
    { SetupUdp(3, 5000, 5001), Plain(M_PLAY, 4), Plain(M_TEARDOWN, 6) }

\* The requests of a session that is described, under the configured URL
\* and under another one, set up and played.
DescribeRequests ==
    { Plain(M_DESCRIBE, 2), WithUrl(Plain(M_DESCRIBE, 2), OtherUrl),
      SetupUdp(3, 5000, 5001), Plain(M_PLAY, 4) }

\* The requests of the scenarios with OPTIONS sent twice, the second CSeq
\* one digit longer than the first.
OptionsRequests ==
    { Plain(M_OPTIONS, 9), Plain(M_OPTIONS, 10), SetupUdp(3, 5000, 5001) }

\* The requests of the scenarios with a bad request among good ones.
BadSeqRequests ==
    { SetupUdp(3, 5000, 5001), Plain(M_PLAY, 4),
      NoCSeq(M_PLAY), SetupTcp(3), Plain(M_UNKNOWN, 7) }

(***************************************************************************)
(* Configuration and bounds.                                                 *)
(***************************************************************************)
ServerAddress == <<"h">>
RtspPath == <<"s">>
SessionIds == {7, 305419896}
MaxSeqRequests == 4
MaxBadSeqRequests == 3
MaxOptionsRequests == 2

(***************************************************************************)
(* State.                                                                    *)
(*   closed_, session_active_, session_id_   the fields of the same name;    *)
(*   client_rtp_port_, client_rtcp_port_     <<>> while the int is still     *)
(*       uninitialised (it has no initialiser), <<p>> once assigned;         *)
(*   connected    control_socket_->is_connected();                           *)
(*   rpc          where the control task is: "loop" (about to call           *)
(*       control_task_fn), "check" (past the closed_ test), "receive"        *)
(*       (inside receive), "handle" (receive returned a buffer), "stopped"   *)
(*       (the callback returned true), "terminated" (an exception left it);  *)
(*   peer_req, buffer   the request the peer sent last and its bytes;        *)
(*   rx_closed    closed_ as it was when receive returned that buffer;       *)
(*   rx_failed    the control task's last call of receive returned false     *)
(*       (reset when it calls receive again);                                *)
(*   out          the responses handed to transmit for that buffer, each     *)
(*       with what transmit returned (sent);                                 *)
(*   last_ret     the result of the last handle_rtsp_request call;           *)
(*   ppc          the producer: "idle", or "gated" (it saw is_active());     *)
(*   dgram        the last datagram the producer handed to a UDP socket;     *)
(*   media        the last call of send_rtp_packet or send_rtcp_packet by a  *)
(*       caller that does not consult is_active(): the datagram, what the   *)
(*       UDP socket's send returned (sent) and what the call returned;      *)
(*   trace        in the sequence specification, one entry per handled       *)
(*       request;                                                            *)
(*   call         in the specification of send_response, the arguments of    *)
(*       the call under examination;                                         *)
(*   dpc          where the destruction of the session is: "none" (the       *)
(*       object is alive), "stop" (~RtspSession has called teardown()),      *)
(*       "join" (it is inside control_task_->stop()), "members" (its body    *)
(*       is done and the members are destroyed in reverse order of           *)
(*       declaration), "logger_released" (logger_ is destroyed),             *)
(*       "sockets" (control_task_ is destroyed), "rtcp_released",            *)
(*       "rtp_released", "released" (the sockets are destroyed:              *)
(*       rtcp_socket_, rtp_socket_, control_socket_).                        *)
(***************************************************************************)
VARIABLES closed_, session_active_, session_id_, client_rtp_port_, client_rtcp_port_,
          connected, rpc, peer_req, buffer, rx_closed, rx_failed, out, last_ret,
          ppc, dgram, media, trace, call, dpc

vars == <<closed_, session_active_, session_id_, client_rtp_port_, client_rtcp_port_,
          connected, rpc, peer_req, buffer, rx_closed, rx_failed, out, last_ret,
          ppc, dgram, media, trace, call, dpc>>

fields == <<closed_, session_active_, client_rtp_port_, client_rtcp_port_>>
reader == <<rpc, peer_req, buffer, rx_closed, rx_failed, out, last_ret>>
producer == <<ppc, dgram, media>>

NoRequest == Request(<<>>, "none", 0, "none", 0, 0, FALSE)
NoCall == [code |-> 0]

NoMediaCall == [kind |-> "none", port |-> <<>>, sent |-> FALSE, ret |-> FALSE]

NoDatagram == [kind |-> "none", port |-> <<>>]

\* The session as the handlers see it; tx_ok is what transmit will return.
Self(tx_ok) ==
    [closed_ |-> closed_, session_active_ |-> session_active_,
     client_rtp_port_ |-> client_rtp_port_, client_rtcp_port_ |-> client_rtcp_port_,
     session_id_ |-> session_id_, server_address_ |-> ServerAddress,
     rtsp_path_ |-> RtspPath, out |-> <<>>, tx_ok |-> tx_ok]

Store(s) ==
    /\ session_id_' = s.session_id_
    /\ closed_' = s.closed_
    /\ session_active_' = s.session_active_
    /\ client_rtp_port_' = s.client_rtp_port_
    /\ client_rtcp_port_' = s.client_rtcp_port_

\* The session after construction.
InitSession ==
    /\ closed_ = FALSE
    /\ session_active_ = FALSE
    /\ session_id_ \in SessionIds
    /\ client_rtp_port_ = <<>>
    /\ client_rtcp_port_ = <<>>
    /\ connected = TRUE
    /\ rpc = "loop"
    /\ peer_req = NoRequest
    /\ buffer = <<>>
    /\ rx_closed = FALSE
    /\ rx_failed = FALSE
    /\ out = <<>>
    /\ last_ret = TRUE
    /\ ppc = "idle"
    /\ dgram = NoDatagram
    /\ media = NoMediaCall
    /\ trace = <<>>
    /\ dpc = "none"

Init ==
    /\ InitSession
    /\ call = NoCall

(***************************************************************************)
(* The control task: Task calls control_task_fn again and again until it     *)
(* returns true.                                                             *)
(***************************************************************************)
\* A control_task_fn without the closed_ test at its head.
ControlTaskLoopNoStop ==
    /\ rpc = "loop"
    /\ rpc' = "check"
    /\ UNCHANGED <<dpc, fields, session_id_, connected, peer_req, buffer, rx_closed, rx_failed,
                   out, last_ret, producer, trace, call>>

\* control_task_fn, the closed_ test at its head.
ControlTaskLoop ==
    /\ rpc = "loop"
    /\ \/ closed_ /\ rpc' = "stopped"
       \/ ~closed_ /\ rpc' = "check"
    /\ UNCHANGED <<dpc, fields, session_id_, connected, peer_req, buffer, rx_closed, rx_failed,
                   out, last_ret, producer, trace, call>>

\* control_task_fn, the is_connected() test: teardown() and stop, or go on
\* into receive.
\* An is_connected() test that stops the task but forgets teardown().
ControlTaskCheckNoTeardown ==
    /\ rpc = "check"
    /\ \/ ~connected /\ rpc' = "stopped" /\ UNCHANGED rx_failed
       \/ connected /\ rpc' = "receive" /\ rx_failed' = FALSE
    /\ UNCHANGED <<dpc, fields, session_id_, connected, peer_req, buffer, rx_closed, out,
                   last_ret, producer, trace, call>>

ControlTaskCheck ==
    /\ rpc = "check"
    /\ \/ ~connected /\ Store(teardown(Self(FALSE))) /\ rpc' = "stopped"
          /\ UNCHANGED rx_failed
       \/ connected /\ rpc' = "receive" /\ rx_failed' = FALSE /\ UNCHANGED fields
    /\ UNCHANGED <<dpc, session_id_, connected, peer_req, buffer, rx_closed, out,
                   last_ret, producer, trace, call>>

\* A receive that leaves the bytes of the previous request in the buffer.
ReceiveRequestStaleBuffer(requests) ==
    /\ rpc = "receive"
    /\ connected
    /\ \E d \in requests :
         /\ peer_req' = d
         /\ buffer' = IF buffer = <<>> THEN Render(d) ELSE buffer
    /\ rx_closed' = closed_
    /\ out' = <<>>
    /\ rpc' = "handle"
    /\ UNCHANGED <<dpc, fields, session_id_, connected, rx_failed, last_ret, producer, trace, call>>

\* receive returns true with the bytes of one request of the peer.
ReceiveRequest(requests) ==
    /\ rpc = "receive"
    /\ connected
    /\ \E d \in requests :
         /\ peer_req' = d
         /\ buffer' = Render(d)
    /\ rx_closed' = closed_
    /\ out' = <<>>
    /\ rpc' = "handle"
    /\ UNCHANGED <<dpc, fields, session_id_, connected, rx_failed, last_ret, producer, trace, call>>

\* receive returns false (an error, or the peer closed the connection, after
\* which the socket may report disconnected); control_task_fn returns false.
ReceiveFails ==
    /\ rpc = "receive"
    /\ \E c \in {connected, FALSE} : connected' = c
    /\ rx_failed' = TRUE
    /\ rpc' = "loop"
    /\ UNCHANGED <<dpc, fields, session_id_, peer_req, buffer, rx_closed, out, last_ret,
                   producer, trace, call>>

\* The status code of a response: the three characters after "RTSP/1.0 ".
StatusCode(response) == Stoi(SubSeq(response, 10, 12)).val

\* What trace keeps of one handled request: the request, the session before
\* and after the call (after.out holds the responses; what transmit returned
\* is not kept), the status code of the response, and where the control task
\* went.
TraceEntry(r) ==
    [req |-> peer_req,
     code |-> IF r.s.out = <<>> THEN 0 ELSE StatusCode(r.s.out[1]),
     responses |-> Len(r.s.out),
     active |-> r.s.session_active_,
     closed |-> r.s.closed_,
     before |-> Self(TRUE),
     after |-> [r.s EXCEPT !.tx_ok = TRUE],
     rpc |-> IF r.thrown THEN "terminated" ELSE "loop"]

\* A control task that gives the session up when handling failed.
FailedToHandleCloses(r) == IF r.ret THEN r.s ELSE teardown(r.s)

\* control_task_fn on the result r of handle_rtsp_request: a false result is
\* logged ("Failed to handle RTSP request") and the session stays as the
\* handler left it.
FailedToHandle(r) == r.s

\* control_task_fn, from the return of receive: handle_rtsp_request on the
\* buffer, then return false.  An exception that leaves the callback ends the
\* task (and the program).  A transmit that fails may leave the socket
\* disconnected.
HandleRequest(logging) ==
    /\ rpc = "handle"
    /\ \E tx_ok \in (IF connected THEN BOOLEAN ELSE {FALSE}) :
         LET r == handle_rtsp_request(Self(tx_ok), buffer)
         IN  /\ Store(FailedToHandle(r))
             /\ out' = [i \in 1..Len(r.s.out) |-> [data |-> r.s.out[i], sent |-> tx_ok]]
             /\ last_ret' = r.ret
             /\ rpc' = IF r.thrown THEN "terminated" ELSE "loop"
             /\ \E c \in (IF r.s.out # <<>> /\ ~tx_ok THEN {connected, FALSE}
                          ELSE {connected}) : connected' = c
             /\ trace' = IF logging THEN Append(trace, TraceEntry(r)) ELSE trace
    /\ UNCHANGED <<dpc, peer_req, buffer, rx_closed, rx_failed, producer, call>>

(***************************************************************************)
(* The owner of the session: play(), pause(), teardown() at any time.        *)
(***************************************************************************)
OwnerCall(after) ==
    /\ rpc # "terminated"
    /\ dpc = "none"
    /\ Store(after)
    /\ UNCHANGED <<dpc, connected, reader, producer, trace, call>>

OwnerPlay == OwnerCall(play(Self(FALSE)))

OwnerPause == OwnerCall(pause(Self(FALSE)))

OwnerTeardown == OwnerCall(teardown(Self(FALSE)))

(***************************************************************************)
(* A frame producer that consults is_active() before every send.             *)
(***************************************************************************)
get_session_id(s) == s.session_id_

is_active(s) == s.session_active_

is_closed(s) == s.closed_

\* A send_rtp_packet that refuses to send while the session is not active.
send_rtp_packet_if_active(s, sent) ==
    [s |-> s,
     ret |-> s.session_active_ /\ sent,
     dgram |-> IF s.session_active_ THEN [kind |-> "rtp", port |-> s.client_rtp_port_]
               ELSE NoDatagram]

\* send_rtp_packet: the datagram handed to rtp_socket_.send, and the result,
\* which is what that send returned (sent).  The port of the datagram is <<>>
\* when the field read is still uninitialised (any value may then be on the
\* wire).
send_rtp_packet(s, sent) ==
    [s |-> s,
     ret |-> sent,
     dgram |-> [kind |-> "rtp", port |-> s.client_rtp_port_]]

\* send_rtcp_packet: the same on rtcp_socket_ and client_rtcp_port_.
send_rtcp_packet(s, sent) ==
    [s |-> s,
     ret |-> sent,
     dgram |-> [kind |-> "rtcp", port |-> s.client_rtcp_port_]]

ProducerObserve ==
    /\ rpc # "terminated"
    /\ dpc = "none"
    /\ ppc = "idle"
    /\ is_active(Self(FALSE))
    /\ ppc' = "gated"
    /\ UNCHANGED <<dpc, fields, session_id_, connected, reader, dgram, media, trace, call>>

ProducerSend(datagram) ==
    /\ rpc # "terminated"
    /\ dpc = "none"
    /\ ppc = "gated"
    /\ dgram' = datagram
    /\ ppc' = "idle"
    /\ UNCHANGED <<dpc, fields, session_id_, connected, reader, media, trace, call>>

ProducerSendRtp == \E sent \in BOOLEAN : ProducerSend(send_rtp_packet(Self(FALSE), sent).dgram)

ProducerSendRtcp == \E sent \in BOOLEAN : ProducerSend(send_rtcp_packet(Self(FALSE), sent).dgram)

(***************************************************************************)
(* A caller of the media API that does not consult the session first: it     *)
(* calls send_rtp_packet and send_rtcp_packet in any state, and the UDP      *)
(* socket's send succeeds or fails.                                          *)
(***************************************************************************)
MediaCall(r, sent) ==
    /\ rpc # "terminated"
    /\ dpc = "none"
    /\ Store(r.s)
    /\ media' = [kind |-> r.dgram.kind, port |-> r.dgram.port, sent |-> sent, ret |-> r.ret]
    /\ UNCHANGED <<dpc, connected, reader, ppc, dgram, trace, call>>

MediaSendRtp == \E sent \in BOOLEAN : MediaCall(send_rtp_packet(Self(FALSE), sent), sent)

MediaSendRtcp == \E sent \in BOOLEAN : MediaCall(send_rtcp_packet(Self(FALSE), sent), sent)

(***************************************************************************)
(* Destruction.  ~RtspSession runs in the owner's thread: teardown(), then   *)
(* control_task_->stop() if the task is started; after the body the members  *)
(* are destroyed in reverse order of declaration: logger_, control_task_,    *)
(* ..., rtcp_socket_, rtp_socket_, control_socket_.  Task::stop() asks the   *)
(* task to end and joins its thread, and so does the destruction of a Task   *)
(* whose thread has not been joined.                                         *)
(***************************************************************************)
\* A destructor that goes straight to stopping the task.
DtorSkipsTeardown ==
    /\ rpc # "terminated"
    /\ dpc = "none"
    /\ dpc' = "stop"
    /\ UNCHANGED <<fields, session_id_, connected, reader, producer, trace, call>>

\* ~RtspSession: teardown().
DtorTeardown ==
    /\ rpc # "terminated"
    /\ dpc = "none"
    /\ Store(teardown(Self(FALSE)))
    /\ dpc' = "stop"
    /\ UNCHANGED <<connected, reader, producer, trace, call>>

\* Task::is_started(): certainly true until the callback has returned true;
\* after that it is either.
is_started == IF rpc = "stopped" THEN BOOLEAN ELSE {TRUE}

\* A destructor whose body ends without stopping the task.
DtorLeavesTaskRunning ==
    /\ rpc # "terminated"
    /\ dpc = "stop"
    /\ dpc' = "members"
    /\ UNCHANGED <<fields, session_id_, connected, reader, producer, trace, call>>

\* ~RtspSession: the is_started() test; control_task_->stop() is entered, or
\* skipped and the body is done.
DtorStop ==
    /\ rpc # "terminated"
    /\ dpc = "stop"
    /\ \E started \in is_started : dpc' = IF started THEN "join" ELSE "members"
    /\ UNCHANGED <<fields, session_id_, connected, reader, producer, trace, call>>

\* Task: its loop does not call the callback again once stop() was called.
TaskStopRequested ==
    /\ rpc = "loop"
    /\ dpc = "join"
    /\ rpc' = "stopped"
    /\ UNCHANGED <<fields, session_id_, connected, peer_req, buffer, rx_closed, rx_failed,
                   out, last_ret, producer, trace, call, dpc>>

\* Task::stop() returns: the task's thread has ended and is joined.
DtorJoin ==
    /\ dpc = "join"
    /\ rpc = "stopped"
    /\ dpc' = "members"
    /\ UNCHANGED <<fields, session_id_, connected, reader, producer, trace, call>>

\* The body is done; logger_, the member declared last, is destroyed first.
DtorReleaseLogger ==
    /\ dpc = "members"
    /\ dpc' = "logger_released"
    /\ UNCHANGED <<fields, session_id_, connected, reader, producer, trace, call>>

\* control_task_ is destroyed, which joins a thread not joined before.
DtorDestroyTask ==
    /\ dpc = "logger_released"
    /\ rpc = "stopped"
    /\ dpc' = "sockets"
    /\ UNCHANGED <<fields, session_id_, connected, reader, producer, trace, call>>

\* The sockets are destroyed, last declared first.
DtorReleaseSockets ==
    /\ \/ dpc = "sockets" /\ dpc' = "rtcp_released"
       \/ dpc = "rtcp_released" /\ dpc' = "rtp_released"
       \/ dpc = "rtp_released" /\ dpc' = "released"
    /\ UNCHANGED <<fields, session_id_, connected, reader, producer, trace, call>>

(***************************************************************************)
(* Specifications.                                                           *)
(***************************************************************************)
Next ==
    \/ ControlTaskLoop
    \/ ControlTaskCheck
    \/ ReceiveRequest(CoreRequests)
    \/ ReceiveFails
    \/ HandleRequest(FALSE)
    \/ OwnerPlay
    \/ OwnerPause
    \/ OwnerTeardown
    \/ ProducerObserve
    \/ ProducerSendRtp
    \/ ProducerSendRtcp

Spec == Init /\ [][Next]_vars

\* The control task is a running thread: Task calls control_task_fn again
\* after it returned false, and the two tests at its head do not block.
FairSpec ==
    /\ Spec
    /\ WF_vars(ControlTaskLoop)
    /\ WF_vars(ControlTaskCheck)

\* The peer's requests handled one after the other, with no owner call and
\* no producer, every handled request recorded in trace.
NextSeq ==
    \/ ControlTaskLoop
    \/ ControlTaskCheck
    \/ Len(trace) < MaxSeqRequests /\ ReceiveRequest(SeqRequests)
    \/ ReceiveFails
    \/ HandleRequest(TRUE)

SeqSpec == Init /\ [][NextSeq]_vars

\* The same, with bad requests (answered 400 or 461) among the good ones.
NextBadSeq ==
    \/ ControlTaskLoop
    \/ ControlTaskCheck
    \/ Len(trace) < MaxBadSeqRequests /\ ReceiveRequest(BadSeqRequests)
    \/ ReceiveFails
    \/ HandleRequest(TRUE)

BadSeqSpec == Init /\ [][NextBadSeq]_vars

\* OPTIONS requests handled one after the other and recorded in trace, while
\* the owner plays, pauses and tears down, which brings the session to
\* every state.
NextOptions ==
    \/ ControlTaskLoop
    \/ ControlTaskCheck
    \/ Len(trace) < MaxOptionsRequests /\ ReceiveRequest(OptionsRequests)
    \/ ReceiveFails
    \/ HandleRequest(TRUE)
    \/ OwnerPlay
    \/ OwnerPause
    \/ OwnerTeardown

OptionsSpec == Init /\ [][NextOptions]_vars

\* The control task and the owner, who calls play() and teardown() and at
\* any time destroys the session.
NextLife ==
    \/ ControlTaskLoop
    \/ ControlTaskCheck
    \/ ReceiveRequest(LifeRequests)
    \/ ReceiveFails
    \/ HandleRequest(FALSE)
    \/ OwnerPlay
    \/ OwnerTeardown
    \/ DtorTeardown
    \/ DtorStop
    \/ TaskStopRequested
    \/ DtorJoin
    \/ DtorReleaseLogger
    \/ DtorDestroyTask
    \/ DtorReleaseSockets

LifeSpec == Init /\ [][NextLife]_vars

\* The control task is a running thread (as in FairSpec), and a Task that was
\* asked to stop leaves its loop.
FairLifeSpec ==
    /\ LifeSpec
    /\ WF_vars(ControlTaskLoop)
    /\ WF_vars(ControlTaskCheck)
    /\ WF_vars(TaskStopRequested)

\* The control task, the owner, and a caller of the media API that sends in
\* any state.
NextMedia ==
    \/ ControlTaskLoop
    \/ ControlTaskCheck
    \/ ReceiveRequest(LifeRequests)
    \/ ReceiveFails
    \/ HandleRequest(FALSE)
    \/ OwnerPlay
    \/ OwnerPause
    \/ OwnerTeardown
    \/ MediaSendRtp
    \/ MediaSendRtcp

MediaSpec == Init /\ [][NextMedia]_vars

\* The control task serving DESCRIBE among other requests while the owner
\* plays, pauses and tears down, which brings the session to every state.
NextDescribe ==
    \/ ControlTaskLoop
    \/ ControlTaskCheck
    \/ ReceiveRequest(DescribeRequests)
    \/ ReceiveFails
    \/ HandleRequest(FALSE)
    \/ OwnerPlay
    \/ OwnerPause
    \/ OwnerTeardown

DescribeSpec == Init /\ [][NextDescribe]_vars

(***************************************************************************)
(* send_response on its own: one call, with arguments drawn from the codes,  *)
(* phrases, header blocks and bodies below, on a stream whose transmit       *)
(* succeeds or fails.                                                        *)
(***************************************************************************)
ResponseHeaders ==
    {<<>>, PublicHeader, SessionHeader \o to_string(7) \o CRLF \o RangeHeader}

ResponseBodies ==
    {<<>>, <<"x">>, SdpVersionOrigin \o to_string(7) \o SdpOriginNet, SdpMedia}

ResponseCalls ==
    [code : {200, 400, 461},
     message : {MsgOK, MsgBadRequest, MsgUnsupportedTransport},
     sequence_number : {NoSequenceNumber, 0, 4, INT_MAX},
     headers : ResponseHeaders,
     body : ResponseBodies]

ResponseInit ==
    /\ InitSession
    /\ call \in ResponseCalls

SendResponse ==
    /\ call # NoCall
    /\ out = <<>>
    /\ \E tx_ok \in BOOLEAN :
         LET r == send_response(Self(tx_ok), call.code, call.message,
                                call.sequence_number, call.headers, call.body)
         IN  /\ out' = [i \in 1..Len(r.s.out) |-> [data |-> r.s.out[i], sent |-> tx_ok]]
             /\ last_ret' = r.ret
    /\ UNCHANGED <<dpc, fields, session_id_, connected, rpc, peer_req, buffer, rx_closed,
                   rx_failed, producer, trace, call>>

ResponseSpec == ResponseInit /\ [][SendResponse]_vars

\* The control task alone, serving any request of AllRequests.
NextReq ==
    \/ ControlTaskLoop
    \/ ControlTaskCheck
    \/ ReceiveRequest(AllRequests)
    \/ ReceiveFails
    \/ HandleRequest(FALSE)

ReqSpec == Init /\ [][NextReq]_vars

(***************************************************************************)
(* Vocabulary of the properties.                                             *)
(***************************************************************************)
\* The control task handles the received buffer in this step.
HandleStep == rpc = "handle" /\ rpc' # "handle"

\* The producer hands a datagram to a UDP socket in this step.
SendStep == ppc = "gated" /\ ppc' = "idle"

\* The last received buffer has been handled.
Handled == peer_req # NoRequest /\ rpc # "handle"

\* A request of the given method whose CSeq header holds an integer.
WithCSeq(d, method) == d.method = method /\ d.cseq_kind = "int"

Contains(s, pat) == Find(s, pat, 0) # npos

CSeqLine(n) == CSeqHeader \o to_string(n) \o CRLF

SessionLine == SessionHeader \o to_string(session_id_) \o CRLF

\* out is exactly one response, with status 200.
Answered200(o) == Len(o) = 1 /\ StatusCode(o[1].data) = 200

\* A response made of the status line and the blank line only: no CSeq, no
\* other header, no body.
BareResponse(code, message) ==
    RtspVersionPrefix \o to_string(code) \o <<SP>> \o message \o CRLF \o CRLF

\* out is exactly one response, the bare one of the given status.
AnsweredBare(o, code, message) == Len(o) = 1 /\ o[1].data = BareResponse(code, message)

(***************************************************************************)
(* C1.  Handling a TEARDOWN request that has a CSeq, and the owner's         *)
(* teardown(), make is_closed() true and is_active() false from every        *)
(* state; and no step of any process ever resets closed_.                    *)
(***************************************************************************)
C1_TeardownCloses ==
    [][ /\ (HandleStep /\ WithCSeq(peer_req, M_TEARDOWN)) => (closed_' /\ ~session_active_')
        /\ OwnerTeardown => (closed_' /\ ~session_active_')
        /\ closed_ => closed_' ]_vars

\* A TEARDOWN request was handled in a session that had been set up and was
\* open when the request arrived.
C1_Witness ==
    /\ Handled
    /\ WithCSeq(peer_req, M_TEARDOWN)
    /\ ~rx_closed
    /\ client_rtp_port_ # <<>>
    /\ closed_
    /\ ~session_active_

(***************************************************************************)
(* C2.  The control task answers a TEARDOWN request that has a CSeq with one *)
(* 200 response carrying "Session: <session id>"; after it the task never    *)
(* tests the connection or enters receive again; and its next iteration      *)
(* stops the task.                                                           *)
(***************************************************************************)
C2_TeardownStopsReader ==
    /\ [][ (HandleStep /\ WithCSeq(peer_req, M_TEARDOWN)) =>
             (Answered200(out') /\ Contains(out'[1].data, SessionLine)) ]_vars
    /\ [](WithCSeq(peer_req, M_TEARDOWN) => rpc \in {"handle", "loop", "stopped"})
    /\ (WithCSeq(peer_req, M_TEARDOWN) /\ rpc = "loop") ~> (rpc = "stopped")

C2_Witness ==
    /\ rpc = "stopped"
    /\ WithCSeq(peer_req, M_TEARDOWN)
    /\ Answered200(out)

(***************************************************************************)
(* C3.  A request received when closed_ was already set is not serviced: no  *)
(* response is written for it.                                               *)
(***************************************************************************)
C3_NoServiceAfterClose == (Handled /\ rx_closed) => out = <<>>

(***************************************************************************)
(* C4.  A producer that consults is_active() before each send never sends a  *)
(* datagram in a state where is_closed() is true.                            *)
(***************************************************************************)
C4_NoMediaAfterClose == [][SendStep => ~closed_]_vars

(***************************************************************************)
(* C5.  is_active() is true only if a SETUP request was accepted before      *)
(* (which is when the client ports are recorded).                            *)
(***************************************************************************)
C5_ActiveOnlyAfterSetup == session_active_ => client_rtp_port_ # <<>>

(***************************************************************************)
(* C6.  A producer that consults is_active() before each send never sends    *)
(* while the client port it reads is still unset.                            *)
(***************************************************************************)
C6_NoSendBeforeSetup == dgram.kind # "none" => dgram.port # <<>>

(***************************************************************************)
(* C7.  The client ports are written once: after they have been assigned no  *)
(* step changes them.                                                        *)
(***************************************************************************)
C7_PortsWrittenOnce ==
    [][client_rtp_port_ # <<>> => UNCHANGED <<client_rtp_port_, client_rtcp_port_>>]_vars

\* Entries i, i+1, i+2 of trace are PLAY, PAUSE, PLAY, each with a CSeq, and
\* an earlier entry is a SETUP answered 200.
PlayPausePlayAt(i) ==
    /\ i >= 2
    /\ i + 2 <= Len(trace)
    /\ \E j \in 1..(i - 1) : trace[j].req.method = M_SETUP /\ trace[j].code = 200
    /\ WithCSeq(trace[i].req, M_PLAY)
    /\ WithCSeq(trace[i + 1].req, M_PAUSE)
    /\ WithCSeq(trace[i + 2].req, M_PLAY)

(***************************************************************************)
(* C8.  After an accepted SETUP, the requests PLAY, PAUSE, PLAY (each with a *)
(* CSeq) handled one after the other are each answered 200, is_active() is   *)
(* true, false, true after them, and is_closed() is false after each.        *)
(***************************************************************************)
C8_PlayPausePlay ==
    \A i \in 1..Len(trace) :
        PlayPausePlayAt(i) =>
            /\ \A k \in i..(i + 2) :
                   trace[k].code = 200 /\ trace[k].responses = 1 /\ ~trace[k].closed
            /\ trace[i].active
            /\ ~trace[i + 1].active
            /\ trace[i + 2].active

C8_Witness ==
    /\ \E i \in 1..Len(trace) : PlayPausePlayAt(i) /\ i + 2 = Len(trace)
    /\ session_active_
    /\ ~closed_

(***************************************************************************)
(* C9.  The response written for a request whose CSeq header holds an        *)
(* integer n contains the line "CSeq: n", whatever the method and status.    *)
(***************************************************************************)
C9_CSeqEchoed ==
    (Handled /\ peer_req.cseq_kind = "int") =>
        (out # <<>> /\ Contains(out[1].data, CSeqLine(peer_req.cseq)))

(***************************************************************************)
(* C10.  An accepted SETUP request whose Transport header holds              *)
(* client_port=N-M is answered with N-M in the Transport header and leaves   *)
(* N and M recorded as the client's RTP and RTCP ports.                      *)
(***************************************************************************)
C10_SetupPortsEchoed ==
    (Handled /\ peer_req.method = M_SETUP /\ peer_req.transport = "udp" /\ Answered200(out)) =>
        /\ Contains(out[1].data,
                    ClientPortKey \o to_string(peer_req.n) \o <<"-">>
                    \o to_string(peer_req.m) \o CRLF)
        /\ client_rtp_port_ = <<peer_req.n>>
        /\ client_rtcp_port_ = <<peer_req.m>>

(***************************************************************************)
(* C11.  Handling a SETUP request whose Transport header names RTP/AVP/TCP   *)
(* writes exactly "RTSP/1.0 461 Unsupported Transport" with no CSeq header,  *)
(* also when the request has a CSeq, and changes neither the client ports    *)
(* nor is_active() nor is_closed(); the control task goes on looping.        *)
(***************************************************************************)
C11_TcpSetupRejected ==
    [][ (HandleStep /\ peer_req.method = M_SETUP /\ peer_req.transport = "tcp") =>
          /\ AnsweredBare(out', 461, MsgUnsupportedTransport)
          /\ UNCHANGED fields
          /\ rpc' = "loop" ]_vars

\* A TCP SETUP with a CSeq was rejected in a session that was playing.
C11_Witness ==
    /\ Handled
    /\ peer_req = SetupTcp(3)
    /\ AnsweredBare(out, 461, MsgUnsupportedTransport)
    /\ session_active_
    /\ client_rtp_port_ = <<5000>>
    /\ ~closed_

(***************************************************************************)
(* C12.  A request whose request line is malformed (fewer than two spaces,   *)
(* or no CR in the buffer) is answered with one 400 Bad Request that has no  *)
(* CSeq header, also when a later line is a well-formed CSeq header.         *)
(***************************************************************************)
C12_MalformedLineBare400 ==
    (Handled /\ peer_req.line # "ok") => AnsweredBare(out, 400, MsgBadRequest)

(***************************************************************************)
(* C13.  A request of any method with a well-formed request line and no CSeq *)
(* header is answered with exactly one 400 Bad Request without CSeq header.  *)
(***************************************************************************)
C13_NoCSeqBare400 ==
    (Handled /\ peer_req.line = "ok" /\ peer_req.cseq_kind = "none") =>
        AnsweredBare(out, 400, MsgBadRequest)

(***************************************************************************)
(* C14.  A request whose CSeq header holds a value that is not a number is   *)
(* answered with one 400 Bad Request; the control task does not abort and    *)
(* the session is not closed by it.                                          *)
(***************************************************************************)
C14_TextCSeqAnswered400 ==
    (Handled /\ peer_req.cseq_kind = "text") =>
        /\ rpc # "terminated"
        /\ Len(out) = 1
        /\ StatusCode(out[1].data) = 400
        /\ ~closed_

(***************************************************************************)
(* C15.  Every received buffer gets exactly one response: never more than    *)
(* one, and one whenever the handling of the buffer returns.                 *)
(***************************************************************************)
C15_OneResponsePerBuffer ==
    Handled => (Len(out) <= 1 /\ (rpc # "terminated" => Len(out) = 1))

\* Entry i of trace is a request that was answered 400 or 461.
BadRequestAt(i) == trace[i].responses = 1 /\ trace[i].code \in {400, 461}

(***************************************************************************)
(* C16.  A request answered 400 or 461 leaves the session open and its       *)
(* fields as they were, and the control task looping; and the request        *)
(* handled after it gets the responses and has the effect it would have had  *)
(* in the state before the bad request.                                      *)
(***************************************************************************)
C16_BadRequestHarmless ==
    \A i \in 1..Len(trace) :
        BadRequestAt(i) =>
            /\ ~trace[i].closed
            /\ trace[i].rpc = "loop"
            /\ [trace[i].after EXCEPT !.out = <<>>] = trace[i].before
            /\ i < Len(trace) =>
                   trace[i + 1].after =
                       handle_rtsp_request(trace[i].before,
                                           Render(trace[i + 1].req)).s

\* SETUP accepted, then a bad request, then a PLAY answered 200.
C16_Witness ==
    /\ Len(trace) = 3
    /\ trace[1].code = 200 /\ trace[1].req.method = M_SETUP
    /\ BadRequestAt(2)
    /\ trace[3].code = 200 /\ trace[3].req.method = M_PLAY
    /\ session_active_
    /\ client_rtp_port_ = <<5000>>
    /\ rpc = "loop"

(***************************************************************************)
(* C17.  After receive has returned false, the next iteration of the control *)
(* task sets closed_ and stops the task instead of calling receive again,    *)
(* whether the socket then reports connected or not.                         *)
(***************************************************************************)
C17_FailedReceiveCloses ==
    [][ (rx_failed /\ rpc = "check" /\ rpc' # "check") =>
          (closed_' /\ rpc' = "stopped") ]_vars

(***************************************************************************)
(* C18.  Once receive has failed and the control socket reports              *)
(* disconnected, closed_ eventually holds with the control task stopped,     *)
(* and no step from then on writes a response.                               *)
(***************************************************************************)
C18_DisconnectCloses ==
    /\ (rx_failed /\ ~connected) ~> (closed_ /\ rpc = "stopped")
    /\ [][ (rx_failed /\ ~connected) => UNCHANGED out ]_vars

\* The disconnect came in a session that was set up and playing; the task
\* has stopped and the session is closed.
C18_Witness ==
    /\ rx_failed
    /\ ~connected
    /\ rpc = "stopped"
    /\ closed_
    /\ client_rtp_port_ # <<>>

\* The control task takes a buffer out of receive in this step.
ReceiveStep == rpc = "receive" /\ rpc' = "handle"

(***************************************************************************)
(* C19.  Responses are written in the order of the requests, by the control  *)
(* task only: the control stream is written only in the step that handles    *)
(* the buffer received last (taking a buffer out of receive writes nothing), *)
(* the responses written there are that request's (a CSeq they carry is its  *)
(* CSeq), and no step of the owner or of a producer writes to the stream.    *)
(***************************************************************************)
C19_ResponsesInOrder ==
    [][ /\ ReceiveStep => out' = <<>>
        /\ HandleStep =>
              \A k \in 1..Len(out') :
                  Contains(out'[k].data, CSeqHeader) =>
                      /\ peer_req.cseq_kind = "int"
                      /\ Contains(out'[k].data, CSeqLine(peer_req.cseq))
        /\ (out' # out) => (ReceiveStep \/ HandleStep) ]_vars

\* A PLAY was answered with its own CSeq after an earlier SETUP had been
\* answered (its ports are recorded).
C19_Witness ==
    /\ Handled
    /\ peer_req = Plain(M_PLAY, 4)
    /\ Answered200(out)
    /\ Contains(out[1].data, CSeqLine(4))
    /\ client_rtp_port_ = <<6000>>

\* Where the destruction is once a socket is released.
AfterRelease == {"rtcp_released", "rtp_released", "released"}

(***************************************************************************)
(* C20.  Destruction goes in this order: its first step sets closed_ and     *)
(* clears session_active_; closed_ holds while the control task is stopped   *)
(* and joined; and a socket is released only after the control task has      *)
(* ended and been joined, all three being released in the end state.         *)
(***************************************************************************)
C20_DestructionOrder ==
    /\ [][ (dpc = "none" /\ dpc' # "none") => (closed_' /\ ~session_active_') ]_vars
    /\ [](dpc # "none" => closed_)
    /\ [](dpc \in AfterRelease => rpc = "stopped")
    /\ [][ (dpc \notin AfterRelease /\ dpc' \in AfterRelease) =>
              (dpc = "sockets" /\ rpc = "stopped") ]_vars

\* A playing session was destroyed while its control task was inside
\* receive; the task was joined and the three sockets are released.
C20_Witness ==
    /\ dpc = "released"
    /\ rpc = "stopped"
    /\ rx_failed
    /\ closed_
    /\ client_rtp_port_ = <<5000>>
\* The destruction has reached members that the control task uses: logger_
\* first, the sockets and the fields after it.
MembersReleased ==
    {"logger_released", "sockets", "rtcp_released", "rtp_released", "released"}

(***************************************************************************)
(* C21.  Wherever the control task is when ~RtspSession starts, it takes no  *)
(* step and is not inside receive or a handler once a member it uses         *)
(* (logger_, the sockets, the fields) has been destroyed; from the start of  *)
(* the destruction on, an iteration that begins ends the task (it never      *)
(* passes the closed_ test again); and a control task that is at the top of  *)
(* its loop after the destruction began does stop.                           *)
(***************************************************************************)
C21_DestructionSafe ==
    /\ [](dpc \in MembersReleased => rpc = "stopped")
    /\ [][ rpc' # rpc => (dpc \notin MembersReleased /\ dpc' \notin MembersReleased) ]_vars
    /\ [][ (dpc # "none" /\ rpc = "loop" /\ rpc' # "loop") => rpc' = "stopped" ]_vars
    /\ (dpc # "none" /\ rpc = "loop") ~> (rpc = "stopped")

\* The destruction is complete, and closed_ was set while the control task
\* was inside receive: the request that receive returned after that has been
\* answered before the task stopped.
C21_Witness ==
    /\ dpc = "released"
    /\ rpc = "stopped"
    /\ rx_closed
    /\ peer_req = Plain(M_PLAY, 4)
    /\ Answered200(out)

(***************************************************************************)
(* C22.  Once closed_ is set (by the owner's teardown() on a running         *)
(* session), a control task at the top of its loop stops: it does not pass   *)
(* the closed_ test, and it does reach the stop.  A control task that was    *)
(* past the test or inside receive stops at the first iteration after that   *)
(* receive returns: from the return on it is never past the test or inside   *)
(* receive again.                                                            *)
(***************************************************************************)
C22_OwnerTeardownStopsReader ==
    /\ [][ (closed_ /\ rpc = "loop" /\ rpc' # "loop") => rpc' = "stopped" ]_vars
    /\ [][ (closed_ /\ rpc \in {"handle", "loop", "stopped"}) =>
             rpc' \notin {"check", "receive"} ]_vars
    /\ (closed_ /\ rpc = "loop") ~> (rpc = "stopped")

\* The owner called teardown() while the control task was inside receive
\* (the stream is connected and the peer sent no TEARDOWN); the request that
\* receive returned was handled and the task stopped at its next iteration.
C22_Witness ==
    /\ rpc = "stopped"
    /\ closed_
    /\ connected
    /\ rx_closed
    /\ peer_req = Plain(M_OPTIONS, 1)
    /\ ~rx_failed

\* A caller that does not consult the session calls the media API in this
\* step.
MediaStep == media' # media

(***************************************************************************)
(* C23.  In every state of the session, closed or not, active or not,        *)
(* send_rtp_packet and send_rtcp_packet hand the datagram to the UDP socket  *)
(* with the port held by client_rtp_port_ resp. client_rtcp_port_, return    *)
(* what the socket's send returned, and leave closed_, session_active_, the  *)
(* ports and the session id as they were.                                    *)
(***************************************************************************)
C23_MediaSendIsThin ==
    [][ MediaStep =>
          /\ media'.ret = media'.sent
          /\ media'.kind \in {"rtp", "rtcp"}
          /\ media'.port = (IF media'.kind = "rtp" THEN client_rtp_port_ ELSE client_rtcp_port_)
          /\ UNCHANGED <<fields, session_id_>> ]_vars

\* send_rtp_packet was called on a closed, inactive session that had been
\* set up; the socket sent the datagram and the call returned true.
C23_Witness ==
    /\ media = [kind |-> "rtp", port |-> <<5000>>, sent |-> TRUE, ret |-> TRUE]
    /\ closed_
    /\ ~session_active_

\* The transmit of the (first) response of o failed.
TxFailed(o) == o # <<>> /\ ~o[1].sent

\* The fields as handle_rtsp_request leaves them when its transmit succeeds.
FieldsAfter(s) ==
    <<s.closed_, s.session_active_, s.client_rtp_port_, s.client_rtcp_port_>>

\* The handling of a request whose response could not be transmitted while
\* the stream stays connected: the call returns false, the fields are those
\* the same request leaves when its transmit succeeds, and the control task
\* is back at the top of its loop.
TransmitFailureIgnored ==
    (HandleStep /\ TxFailed(out') /\ connected') =>
        /\ ~last_ret'
        /\ rpc' = "loop"
        /\ fields' = FieldsAfter(handle_rtsp_request(Self(TRUE), buffer).s)

(***************************************************************************)
(* C24 as stated.  After a response could not be transmitted while the       *)
(* stream stays connected, the handler has returned failure, the control     *)
(* task changes nothing, goes on to the next receive, and stops only when    *)
(* the stream reports disconnected.                                          *)
(***************************************************************************)
C24_StopsOnlyWhenDisconnected ==
    /\ [][ TransmitFailureIgnored ]_vars
    /\ [][ (TxFailed(out) /\ rpc \in {"loop", "check"} /\ rpc' = "stopped") => ~connected ]_vars

(***************************************************************************)
(* C24, amended.  A failed transmit is reported by the handler and changes   *)
(* nothing else: the fields are what the request sets when its response is   *)
(* transmitted (PLAY, PAUSE, SETUP and TEARDOWN take effect before the       *)
(* response is sent).  The control task returns to the top of its loop,      *)
(* stops there if the session is closed (the request was a TEARDOWN), stops  *)
(* at the connection test if the stream reports disconnected, and otherwise  *)
(* enters receive again.                                                     *)
(***************************************************************************)
C24_TransmitFailureContinues ==
    /\ [][ TransmitFailureIgnored ]_vars
    /\ [][ (TxFailed(out) /\ rpc = "loop" /\ rpc' # "loop") =>
             IF closed_ THEN rpc' = "stopped" ELSE rpc' = "check" ]_vars
    /\ [][ (TxFailed(out) /\ rpc = "check" /\ rpc' # "check") =>
             IF connected THEN rpc' = "receive" ELSE rpc' = "stopped" ]_vars

\* The response to a PLAY could not be transmitted, the stream is still
\* connected, and the control task is inside the next receive; the session
\* is active, as the request made it.
C24_Witness ==
    /\ rpc = "receive"
    /\ TxFailed(out)
    /\ connected
    /\ ~last_ret
    /\ peer_req = Plain(M_PLAY, 4)
    /\ session_active_
    /\ ~closed_

\* A response as its reader takes it apart: the status line up to the first
\* CR LF (version, code, phrase), the header lines up to the first blank
\* line, and the body after it.
ParseResponse(r) ==
    LET eol == Find(r, CRLF, 0)
        status == Substr(r, 0, eol)
        space == Find(status, <<SP>>, Len(RtspVersionPrefix))
        blank == Find(r, CRLF \o CRLF, 0)
    IN  [version |-> Substr(status, 0, Len(RtspVersionPrefix)),
         code |-> Stoi(Substr(status, Len(RtspVersionPrefix), space - Len(RtspVersionPrefix))).val,
         phrase |-> Substr(status, space + 1, npos),
         head |-> IF blank = eol THEN <<>> ELSE Substr(r, eol + 2, blank - eol),
         body |-> Substr(r, blank + 4, npos),
         terminated |-> blank # npos]

\* The value of the Content-Length line of a header block, <<>> if it has
\* none.
ContentLength(head) ==
    LET at == Find(head, ContentLengthHeader, 0)
        from == at + Len(ContentLengthHeader)
    IN  IF at = npos THEN <<>>
        ELSE <<Stoi(Substr(head, from, Find(head, CRLF, from) - from)).val>>

\* The header block without its Content-Length line (which is the last).
BeforeContentLength(head) ==
    LET at == Find(head, ContentLengthHeader, 0)
    IN  IF at = npos THEN head ELSE Substr(head, 0, at)

(***************************************************************************)
(* C25.  The response send_response hands to transmit reads back as: the     *)
(* status line "RTSP/1.0 <code> <phrase>"; then the line "CSeq: <n>" exactly *)
(* when a sequence number was given; then the caller's header block; then,   *)
(* when the body is not empty, a Content-Length line whose value is the      *)
(* length of the body, the blank line and the body, and when the body is     *)
(* empty the blank line alone, with no Content-Length line and nothing after *)
(* it.  The call returns what transmit returned.                             *)
(***************************************************************************)
C25_ResponseLayout ==
    (call # NoCall /\ out # <<>>) =>
        LET p == ParseResponse(out[1].data)
        IN  /\ Len(out) = 1
            /\ p.version = RtspVersionPrefix
            /\ p.code = call.code
            /\ p.phrase = call.message
            /\ p.terminated
            /\ BeforeContentLength(p.head) =
                   (IF call.sequence_number # NoSequenceNumber
                    THEN CSeqLine(call.sequence_number) ELSE <<>>) \o call.headers
            /\ ContentLength(p.head) = (IF call.body = <<>> THEN <<>> ELSE <<Len(p.body)>>)
            /\ p.body = call.body
            /\ last_ret = out[1].sent

\* A response with a CSeq line, two header lines and a body of more than
\* nine bytes was handed to a transmit that failed.
C25_Witness ==
    /\ call # NoCall
    /\ out # <<>>
    /\ call.sequence_number = 4
    /\ call.headers = SessionHeader \o to_string(7) \o CRLF \o RangeHeader
    /\ call.body = SdpMedia
    /\ ~out[1].sent
    /\ ~last_ret

\* The lines of a text, each without its CR LF.
RECURSIVE SplitLines(_)
SplitLines(text) ==
    IF text = <<>> THEN <<>>
    ELSE LET end == Find(text, CRLF, 0)
         IN  IF end = npos THEN <<text>>
             ELSE <<Substr(text, 0, end)>> \o SplitLines(Substr(text, end + 2, npos))

StartsWith(s, prefix) == Len(s) >= Len(prefix) /\ SubSeq(s, 1, Len(prefix)) = prefix

ControlAttribute == <<"a", "=", "c", "o", "n", "t", "r", "o", "l", ":">>

OriginPrefix == <<"o", "=", "-", " ">>

SdpContentType ==
    <<"C", "o", "n", "t", "e", "n", "t", "-", "T", "y", "p", "e", ":", " ", "a", "p", "p", "l",
      "i", "c", "a", "t", "i", "o", "n", "/", "s", "d", "p">>

\* "rtsp://<server_address>/<rtsp_path>" of the session's configuration.
ConfiguredUrl == RtspScheme \o ServerAddress \o <<"/">> \o RtspPath

\* The response is a 200 that describes the session: Content-Type and
\* Content-Base among its header lines, a Content-Length that is the length
\* of its body, and an SDP body with the session id in its origin line and
\* two a=control lines, both of the configured URL.
DescribesSession(response) ==
    LET p == ParseResponse(response)
        head == SplitLines(p.head)
        sdp == SplitLines(p.body)
        controls == {i \in 1..Len(sdp) : StartsWith(sdp[i], ControlAttribute)}
    IN  /\ p.code = 200
        /\ \E i \in 1..Len(head) : head[i] = SdpContentType
        /\ \E i \in 1..Len(head) : head[i] = ContentBaseHeader \o ConfiguredUrl
        /\ ContentLength(p.head) = <<Len(p.body)>>
        /\ Len(p.body) > 0
        /\ \E i \in 1..Len(sdp) :
               StartsWith(sdp[i], OriginPrefix \o to_string(session_id_) \o <<SP>>)
        /\ Cardinality(controls) = 2
        /\ \A i \in controls : sdp[i] = ControlAttribute \o ConfiguredUrl

(***************************************************************************)
(* C26.  In every state of the session (not set up, ready, playing, paused,  *)
(* closed) a DESCRIBE request whose CSeq header holds an integer, whatever   *)
(* URL its request line names, gets exactly one response, a 200 with         *)
(* Content-Type application/sdp, Content-Base                                *)
(* rtsp://<server_address>/<rtsp_path> of the configuration, a               *)
(* Content-Length equal to the length of the body, and an SDP body whose     *)
(* origin line carries the session id and whose two a=control lines are the  *)
(* Content-Base; and it changes no field of the session.                     *)
(***************************************************************************)
C26_DescribeAnswered ==
    [][ (HandleStep /\ WithCSeq(peer_req, M_DESCRIBE)) =>
          /\ Len(out') = 1
          /\ DescribesSession(out'[1].data)
          /\ UNCHANGED <<fields, session_id_>> ]_vars

\* A DESCRIBE that names another URL than the configured one was answered
\* while the session was playing.
C26_Witness ==
    /\ Handled
    /\ peer_req = WithUrl(Plain(M_DESCRIBE, 2), OtherUrl)
    /\ Len(out) = 1
    /\ DescribesSession(out[1].data)
    /\ session_active_
    /\ client_rtp_port_ = <<5000>>

\* The values of the "Session: " lines among the header lines of a response.
SessionValues(response) ==
    LET head == SplitLines(ParseResponse(response).head)
    IN  {SubSeq(head[i], Len(SessionHeader) + 1, Len(head[i])) :
            i \in {j \in 1..Len(head) : StartsWith(head[j], SessionHeader)}}

\* The session ids in the origin lines ("o=- <id> ...") of an SDP body.
OriginIds(response) ==
    LET sdp == SplitLines(ParseResponse(response).body)
    IN  {Substr(sdp[i], Len(OriginPrefix), Find(sdp[i], <<SP>>, Len(OriginPrefix)) - Len(OriginPrefix)) :
            i \in {j \in 1..Len(sdp) : StartsWith(sdp[j], OriginPrefix)}}

PublicLine ==
    <<"P", "u", "b", "l", "i", "c", ":", " ", "D", "E", "S", "C", "R", "I", "B", "E", ",",
      " ", "S", "E", "T", "U", "P", ",", " ", "T", "E", "A", "R", "D", "O", "W", "N", ",",
      " ", "P", "L", "A", "Y", ",", " ", "P", "A", "U", "S", "E">>

\* Entries i and i+1 of trace are OPTIONS requests with CSeq n and n+1.
OptionsTwiceAt(i) ==
    /\ i + 1 <= Len(trace)
    /\ WithCSeq(trace[i].req, M_OPTIONS)
    /\ WithCSeq(trace[i + 1].req, M_OPTIONS)
    /\ trace[i + 1].req.cseq = trace[i].req.cseq + 1

\* A response without the header lines that start with "CSeq: ".
WithoutCSeqLine(response) ==
    LET p == ParseResponse(response)
        head == SplitLines(p.head)
    IN  [p EXCEPT !.head = SelectSeq(head, LAMBDA line : ~StartsWith(line, CSeqHeader))]

\* The values of the "CSeq: " lines of a response.
CSeqValues(response) ==
    LET head == SplitLines(ParseResponse(response).head)
    IN  {SubSeq(head[i], Len(CSeqHeader) + 1, Len(head[i])) :
            i \in {j \in 1..Len(head) : StartsWith(head[j], CSeqHeader)}}

ObservableState(s) == <<is_active(s), is_closed(s)>>

\* The session as it is without the responses written, whatever transmit
\* returned.
SessionState(s) == [s EXCEPT !.out = <<>>, !.tx_ok = TRUE]

HasValidPorts(d) ==
    /\ d.transport = "udp"
    /\ d.n \in 0..65535
    /\ d.m \in 0..65535

(***************************************************************************)
(* C30.  A SETUP request (well formed, with a CSeq) whose Transport header   *)
(* has no client_port pair, or names a port outside 0..65535, is rejected as *)
(* malformed: one 400 response, the ports and the other fields as they were, *)
(* the session open and the control task running.                            *)
(***************************************************************************)
C30_SetupNeedsValidPorts ==
    [][ (/\ HandleStep
         /\ WithCSeq(peer_req, M_SETUP)
         /\ peer_req.line = "ok"
         /\ peer_req.transport \in {"udp", "udp_no_port"}
         /\ ~HasValidPorts(peer_req)) =>
            /\ Len(out') = 1
            /\ StatusCode(out'[1].data) = 400
            /\ UNCHANGED fields
            /\ ~closed_'
            /\ rpc' = "loop" ]_vars

(***************************************************************************)
(* C31.  Whatever the peer's requests and the owner's calls of play(),       *)
(* pause() and teardown(), and however they interleave, is_closed() and      *)
(* is_active() are never both true.                                          *)
(***************************************************************************)
C31_ClosedNeverActive == ~(is_closed(Self(TRUE)) /\ is_active(Self(TRUE)))

\* The sessions that differ from s in closed_, session_active_ and the
\* recorded ports only.
Variants(s) ==
    {[s EXCEPT !.closed_ = c, !.session_active_ = a,
               !.client_rtp_port_ = ports[1], !.client_rtcp_port_ = ports[2]] :
        c \in BOOLEAN, a \in BOOLEAN,
        ports \in {<< <<>>, <<>> >>, << <<5000>>, <<5001>> >>, << <<6000>>, <<6001>> >>}}

\* The bytes of the responses in o.
ResponseBytes(o) == [k \in 1..Len(o) |-> o[k].data]

(***************************************************************************)
(* C32.  The responses written for a buffer are those that any session with  *)
(* the same session id, server address and path writes for that buffer,      *)
(* whatever its closed_, session_active_ and recorded ports; and a PLAY with *)
(* a CSeq before any SETUP, and a PAUSE with a CSeq in a session that is not *)
(* playing, are answered 200.                                                *)
(***************************************************************************)
C32_ResponseIgnoresState ==
    /\ [][ HandleStep =>
             \A v \in Variants(Self(TRUE)) :
                 handle_rtsp_request(v, buffer).s.out = ResponseBytes(out') ]_vars
    /\ [][ (HandleStep /\ peer_req.line = "ok" /\ WithCSeq(peer_req, M_PLAY)
                       /\ client_rtp_port_ = <<>>) => Answered200(out') ]_vars
    /\ [][ (HandleStep /\ peer_req.line = "ok" /\ WithCSeq(peer_req, M_PAUSE)
                       /\ ~session_active_) => Answered200(out') ]_vars

\* A PAUSE was answered 200 in a session that was never set up nor played.
C32_Witness ==
    /\ Handled
    /\ peer_req = Plain(M_PAUSE, 5)
    /\ Answered200(out)
    /\ client_rtp_port_ = <<>>
    /\ ~session_active_
    /\ ~closed_
    /\ rpc = "loop"

\* One of the responses in o has status 200.
Has200(o) == \E k \in 1..Len(o) : StatusCode(o[k].data) = 200

(***************************************************************************)
(* C33.  A request for which no 200 response is written (it is answered 400  *)
(* or 461, or nothing is written for it) leaves closed_, session_active_ and *)
(* both client ports as they were; and a TEARDOWN, PLAY, PAUSE or SETUP      *)
(* whose CSeq header is missing or holds no integer is such a request.       *)
(***************************************************************************)
C33_RejectedChangesNothing ==
    /\ [][ (HandleStep /\ ~Has200(out')) => UNCHANGED fields ]_vars
    /\ [][ (HandleStep /\ peer_req.cseq_kind # "int"
                       /\ peer_req.method \in {M_TEARDOWN, M_PLAY, M_PAUSE, M_SETUP}) =>
             (~Has200(out') /\ UNCHANGED fields) ]_vars

\* A TEARDOWN without CSeq was answered 400 in a playing session, which is
\* still playing and open.
C33_Witness ==
    /\ Handled
    /\ peer_req = NoCSeq(M_TEARDOWN)
    /\ AnsweredBare(out, 400, MsgBadRequest)
    /\ session_active_
    /\ ~closed_
    /\ client_rtp_port_ = <<5000>>

ports == <<client_rtp_port_, client_rtcp_port_>>

(***************************************************************************)
(* C34.  Handling a SETUP request never changes session_active_ or closed_   *)
(* (also in a session that is playing); handling a PLAY or PAUSE never       *)
(* changes the ports or closed_; handling a TEARDOWN never changes the       *)
(* ports; handling an OPTIONS, a DESCRIBE or a request of an unknown method  *)
(* changes no field.  An accepted SETUP records the ports of the request, an *)
(* accepted PLAY sets and an accepted PAUSE clears session_active_, and an   *)
(* accepted TEARDOWN sets closed_ and clears session_active_.                *)
(***************************************************************************)
C34_FrameOfEachMethod ==
    [][ HandleStep =>
          /\ peer_req.method = M_SETUP => UNCHANGED <<session_active_, closed_>>
          /\ peer_req.method \in {M_PLAY, M_PAUSE} => UNCHANGED <<ports, closed_>>
          /\ peer_req.method = M_TEARDOWN => UNCHANGED ports
          /\ peer_req.method \in {M_OPTIONS, M_DESCRIBE, M_UNKNOWN} => UNCHANGED fields
          /\ (Has200(out') /\ peer_req.method = M_SETUP /\ ~peer_req.extra) =>
                 ports' = << <<peer_req.n>>, <<peer_req.m>> >>
          /\ (Has200(out') /\ peer_req.method = M_PLAY) => session_active_'
          /\ (Has200(out') /\ peer_req.method = M_PAUSE) => ~session_active_'
          /\ (Has200(out') /\ peer_req.method = M_TEARDOWN) =>
                 (closed_' /\ ~session_active_') ]_vars

\* A second SETUP, with other ports, was accepted in a playing session: the
\* new ports are recorded and the session is still playing and open.
C34_Witness ==
    /\ Handled
    /\ peer_req = SetupUdp(3, 6000, 6001)
    /\ Answered200(out)
    /\ ports = << <<6000>>, <<6001>> >>
    /\ session_active_
    /\ ~closed_

(***************************************************************************)
(* C35.  The 200 response to a request whose CSeq header holds an integer n, *)
(* negative ones included, contains the line "CSeq: n".                      *)
(***************************************************************************)
C35_ParsedCSeqWritten ==
    (Handled /\ peer_req.line = "ok" /\ peer_req.cseq_kind = "int" /\ Answered200(out)) =>
        /\ parse_rtsp_command_sequence(Substr(buffer, SzAdd(Find(buffer, <<CR>>, 0), 2), npos)).cseq
             = peer_req.cseq
        /\ Contains(out[1].data, CSeqLine(peer_req.cseq))

\* The buffer holds a request line: two spaces and a CR.
HasRequestLine(b) ==
    /\ Find(b, <<SP>>, 0) # npos
    /\ Find(b, <<SP>>, SzAdd(Find(b, <<SP>>, 0), 1)) # npos
    /\ Find(b, <<CR>>, 0) # npos

(***************************************************************************)
(* C36.  For a handled buffer that holds two spaces and a CR, the index the  *)
(* part after the request line starts at (that of the first CR, plus 2) is   *)
(* at most the length of the buffer, and the request is answered also when   *)
(* the CR is the last byte of the buffer.                                    *)
(***************************************************************************)
C36_BodyStartWithinBuffer ==
    (Handled /\ HasRequestLine(buffer)) =>
        /\ ~SubstrThrows(buffer, SzAdd(Find(buffer, <<CR>>, 0), 2))
        /\ (Find(buffer, <<CR>>, 0) = Len(buffer) - 1) => (out # <<>> /\ rpc # "terminated")

====
